---- MODULE Spec2Model ----
(***************************************************************************)
(* Model of the item service of jeremyeder/reference:                      *)
(*   app/core/security.py      sanitize_string, validate_slug              *)
(*   app/models/item.py        ItemBase / ItemCreate / ItemUpdate / Item   *)
(*   app/services/item_service.py   ItemService                            *)
(*                                                                         *)
(* A Python str is a sequence of code points (Naturals).  The value None   *)
(* of a "str | None" field is the sequence <<-1>>, which is no string.     *)
(***************************************************************************)
EXTENDS Integers, Sequences, FiniteSets, TLC

VARIABLES
    items,        \* ItemService._items       : id -> Item
    slug_index,   \* ItemService._slug_index  : slug -> id
    next_id,      \* ItemService._next_id
    clock,        \* the last value datetime.utcnow() returned
    created,      \* number of create_item calls that returned an Item
    last,         \* the last call on the service: operation, arguments, outcome
    threads       \* the request threads inside create_item: position and locals

vars == <<items, slug_index, next_id, clock, created, last, threads>>

----------------------------------------------------------------------------
(* Bounds of the model *)

MaxId == 2        \* create_item is called while _next_id <= MaxId
MaxClock == 1     \* utcnow() is read while it can still return <= MaxClock
MaxLen == 3       \* longest string given to the pure functions

----------------------------------------------------------------------------
(* Strings *)

None == <<-1>>

\* str.isspace(): the characters str.strip() removes.  Below 256 these are
\* \t \n \x0b \x0c \r, \x1c-\x1f, the space, \x85 and \xa0; above, U+1680,
\* U+2000-U+200A, U+2028, U+2029, U+202F, U+205F and U+3000.
Whitespace ==
    {9, 10, 11, 12, 13, 28, 29, 30, 31, 32, 133, 160}
        \cup {5760} \cup (8192..8202) \cup {8232, 8233, 8239, 8287, 12288}

\* the class [\x00-\x1f\x7f-\x9f] of sanitize_string
ControlChars == (0..31) \cup (127..159)

\* the class [a-z0-9-] of validate_slug
SlugChars == (97..122) \cup (48..57) \cup {45}

Hyphen == <<45>>

RECURSIVE lstrip(_)
lstrip(s) ==
    IF s # <<>> /\ Head(s) \in Whitespace THEN lstrip(Tail(s)) ELSE s

RECURSIVE rstrip(_)
rstrip(s) ==
    IF s # <<>> /\ s[Len(s)] \in Whitespace
    THEN rstrip(SubSeq(s, 1, Len(s) - 1))
    ELSE s

\* str.strip()
strip(s) == rstrip(lstrip(s))

IsControl(c) == c \in ControlChars

\* re.sub(r"[\x00-\x1f\x7f-\x9f]", "", s)
remove_control(s) == SelectSeq(s, LAMBDA c : ~IsControl(c))

\* the position a slice bound i denotes in a list of length n
slice_index(i, n) ==
    IF i < 0 THEN (IF i + n < 0 THEN 0 ELSE i + n)
    ELSE (IF i > n THEN n ELSE i)

\* xs[start:stop]
slice(xs, start, stop) ==
    LET lo == slice_index(start, Len(xs))
        hi == slice_index(stop, Len(xs))
    IN  IF lo < hi THEN SubSeq(xs, lo + 1, hi) ELSE <<>>

\* if len(sanitized) > max_length: sanitized = sanitized[:max_length]
truncate(s, n) == IF Len(s) > n THEN slice(s, 0, n) ELSE s

sanitize_string(value, max_length) ==
    IF value = <<>>
    THEN <<>>
    ELSE truncate(remove_control(strip(value)), max_length)

startswith(s, p) == Len(s) >= Len(p) /\ SubSeq(s, 1, Len(p)) = p

endswith(s, p) == Len(s) >= Len(p) /\ SubSeq(s, Len(s) - Len(p) + 1, Len(s)) = p

\* p in s
contains(s, p) ==
    \E i \in 1..(Len(s) - Len(p) + 1) : SubSeq(s, i, i + Len(p) - 1) = p

\* re.match(r"^[a-z0-9-]+$", value): "$" matches at the end of the string and
\* also just before a line feed that ends the string
re_match_slug(value) ==
    LET n == Len(value)
        body == IF n >= 1 /\ value[n] = 10 THEN SubSeq(value, 1, n - 1) ELSE value
    IN  /\ Len(body) >= 1
        /\ \A i \in 1..Len(body) : body[i] \in SlugChars

\* the raise statements of validate_slug, in order; "" when none is reached
validate_slug_error(value) ==
    IF value = <<>> THEN "Slug cannot be empty"
    ELSE IF ~re_match_slug(value)
        THEN "Slug must contain only lowercase letters, numbers, and hyphens"
    ELSE IF startswith(value, Hyphen) \/ endswith(value, Hyphen)
        THEN "Slug cannot start or end with a hyphen"
    ELSE IF contains(value, Hyphen \o Hyphen)
        THEN "Slug cannot contain consecutive hyphens"
    ELSE ""

validate_slug(value) ==
    LET err == validate_slug_error(value)
    IN  IF err # ""
        THEN [raised |-> TRUE, error |-> err]
        ELSE [raised |-> FALSE, value |-> value]

----------------------------------------------------------------------------
(* Pydantic models *)

NAME_MAX_LENGTH == 200
SLUG_MAX_LENGTH == 100
DESCRIPTION_MAX_LENGTH == 1000

\* a pydantic ValidationError raised by a constructor
Invalid == [ValidationError |-> TRUE]

\* Field(..., min_length=1, max_length=200) of a str
name_constraints(v) == v # None /\ Len(v) >= 1 /\ Len(v) <= NAME_MAX_LENGTH

\* Field(..., min_length=1, max_length=100) of a str
slug_constraints(v) == v # None /\ Len(v) >= 1 /\ Len(v) <= SLUG_MAX_LENGTH

\* Field(None, max_length=1000) of a str | None
description_constraints(v) == v = None \/ Len(v) <= DESCRIPTION_MAX_LENGTH

\* ItemBase.sanitize_name, run after the constraints of the field
sanitize_name(v) == sanitize_string(v, NAME_MAX_LENGTH)

\* ItemBase.sanitize_description / ItemUpdate.sanitize_description
sanitize_description(v) ==
    IF v = None THEN None ELSE sanitize_string(v, DESCRIPTION_MAX_LENGTH)

\* ItemUpdate.sanitize_name
sanitize_optional_name(v) ==
    IF v = None THEN None ELSE sanitize_string(v, NAME_MAX_LENGTH)

\* Validation of the three fields ItemBase declares: each field's constraints,
\* then its validator.  Construction fails when any field fails.
ItemBase(name, slug, description) ==
    IF /\ name_constraints(name)
       /\ slug_constraints(slug)
       /\ ~validate_slug(slug).raised
       /\ description_constraints(description)
    THEN [name        |-> sanitize_name(name),
          slug        |-> validate_slug(slug).value,
          description |-> sanitize_description(description)]
    ELSE Invalid

ItemCreate(name, slug, description) == ItemBase(name, slug, description)

\* Item(id=..., name=..., slug=..., description=..., created_at=..., updated_at=...)
Item(id, name, slug, description, created_at, updated_at) ==
    LET base == ItemBase(name, slug, description)
    IN  IF base # Invalid
        THEN [id          |-> id,
              name        |-> base.name,
              slug        |-> base.slug,
              description |-> base.description,
              created_at  |-> created_at,
              updated_at  |-> updated_at]
        ELSE Invalid

\* ItemUpdate(**given): given is the set of fields the caller supplied, a
\* supplied field may be None.  An omitted field keeps its default None and is
\* not validated.
ItemUpdate(given, name, description) ==
    LET n == IF "name" \in given THEN name ELSE None
        d == IF "description" \in given THEN description ELSE None
    IN  IF /\ (n = None \/ name_constraints(n))
           /\ description_constraints(d)
        THEN [fields_set  |-> given,
              name        |-> sanitize_optional_name(n),
              description |-> sanitize_description(d)]
        ELSE Invalid

\* Variant of model_dump_exclude_unset: data.model_dump(), every field dumped.
model_dump_all(data) == [f \in {"name", "description"} |-> data[f]]

\* data.model_dump(exclude_unset=True)
model_dump_exclude_unset(data) == [f \in data.fields_set |-> data[f]]

----------------------------------------------------------------------------
(* ItemService *)

NoItem == [id |-> 0]     \* the None of an "Item | None" result

NoData == [none |-> TRUE]

EmptyDict == [k \in {} |-> 0]

\* ItemService.__init__
Init ==
    /\ items = EmptyDict
    /\ slug_index = EmptyDict
    /\ next_id = 1
    /\ clock = 0
    /\ created = 0
    /\ last = [op |-> "init", outcome |-> "ok", id |-> 0, data |-> NoData]
    /\ threads = EmptyDict

\* d[k] = v
dict_set(d, k, v) == [x \in DOMAIN d \cup {k} |-> IF x = k THEN v ELSE d[x]]

\* del d[k]
dict_del(d, k) == [x \in DOMAIN d \ {k} |-> d[x]]

\* d.get(k), with the given value for None
dict_get(d, k, none) == IF k \in DOMAIN d THEN d[k] ELSE none

\* datetime.utcnow(): the clock does not go back
utcnow(t) == t \in {clock, clock + 1} /\ t <= MaxClock /\ clock' = t

\* line 30: data.slug in self._slug_index
slug_exists(slug) == slug \in DOMAIN slug_index

\* Variant of create_raises: the id is allocated before the checks, so a
\* failed call consumes it.
create_raises_after_allocation(error, data) ==
    /\ last' = [op |-> "create_item", outcome |-> error, id |-> 0,
                data |-> [slug |-> data.slug]]
    /\ next_id' = next_id + 1
    /\ UNCHANGED <<items, slug_index, created>>

\* a raise statement of create_item: the call ends there
create_raises(error, data) ==
    /\ last' = [op |-> "create_item", outcome |-> error, id |-> 0,
                data |-> [slug |-> data.slug]]
    /\ UNCHANGED <<items, slug_index, next_id, created>>

\* Variant of create_store: the slug index is not written.
create_store_without_index(item) ==
    /\ items' = dict_set(items, item.id, item)
    /\ next_id' = next_id + 1
    /\ UNCHANGED slug_index

\* Variant of create_store: the counter is not advanced.
create_store_without_increment(item) ==
    /\ items' = dict_set(items, item.id, item)
    /\ slug_index' = dict_set(slug_index, item.slug, item.id)
    /\ UNCHANGED next_id

\* lines 43-45 of create_item
create_store(item) ==
    /\ items' = dict_set(items, item.id, item)
    /\ slug_index' = dict_set(slug_index, item.slug, item.id)
    /\ next_id' = next_id + 1

create_item(data) ==
    /\ next_id <= MaxId
    /\ IF slug_exists(data.slug)
       THEN /\ create_raises("ValueError", data)
            /\ UNCHANGED clock
       ELSE \E now \in {clock, clock + 1} :
            /\ utcnow(now)
            /\ LET item == Item(next_id, data.name, data.slug, data.description,
                                now, now)
               IN  IF item = Invalid
                   THEN create_raises("ValidationError", data)
                   ELSE /\ create_store(item)
                        /\ created' = created + 1
                        /\ last' = [op |-> "create_item", outcome |-> "ok",
                                    id |-> item.id, data |-> data]

get_item(item_id) == dict_get(items, item_id, NoItem)

get_item_by_slug(slug) ==
    LET item_id == dict_get(slug_index, slug, 0)
    IN  IF item_id = 0 THEN NoItem ELSE dict_get(items, item_id, NoItem)

\* sorted(S, key=lambda x: x.id)
RECURSIVE sorted_by_id(_)
sorted_by_id(S) ==
    IF S = {}
    THEN <<>>
    ELSE LET m == CHOOSE x \in S : \A y \in S : x.id <= y.id
         IN  <<m>> \o sorted_by_id(S \ {m})

\* Variant of list_items: limit is used as the end position.
list_items_limit_as_stop(skip, limit) ==
    LET all_items == sorted_by_id({items[k] : k \in DOMAIN items})
    IN  slice(all_items, skip, limit)

list_items(skip, limit) ==
    LET all_items == sorted_by_id({items[k] : k \in DOMAIN items})
    IN  slice(all_items, skip, skip + limit)

\* lines 105-107: setattr(item, field, value) for each dumped field
apply_update(item, update_data) ==
    [f \in DOMAIN item |->
        IF f \in DOMAIN update_data THEN update_data[f] ELSE item[f]]

\* Variant of touch: the timestamp is left as it was.
touch_nothing(item, now) == item

\* Variant of touch: the wrong timestamp is assigned.
touch_created_at(item, now) == [item EXCEPT !.created_at = now]

\* line 109: item.updated_at = datetime.utcnow()
touch(item, now) == [item EXCEPT !.updated_at = now]

\* Variant of update_not_found: the call answers as if it had found the item.
update_not_found_returns_item(item_id) ==
    /\ last' = [op |-> "update_item", outcome |-> "ok",
                id |-> item_id, data |-> NoData]
    /\ UNCHANGED <<items, slug_index, next_id, clock, created>>

\* lines 102-103: return None
update_not_found(item_id) ==
    /\ last' = [op |-> "update_item", outcome |-> "None",
                id |-> item_id, data |-> NoData]
    /\ UNCHANGED <<items, slug_index, next_id, clock, created>>

update_item(item_id, data) ==
    LET item == dict_get(items, item_id, NoItem)
    IN  IF item = NoItem
        THEN update_not_found(item_id)
        ELSE \E now \in {clock, clock + 1} :
             /\ utcnow(now)
             /\ LET updated == apply_update(item, model_dump_exclude_unset(data))
                IN  items' = [items EXCEPT ![item_id] = touch(updated, now)]
             /\ last' = [op |-> "update_item", outcome |-> "ok",
                         id |-> item_id, data |-> data]
             /\ UNCHANGED <<slug_index, next_id, created>>

\* Variant of delete_store: the slug stays in the index.
delete_store_keeps_slug(item_id, item) ==
    /\ items' = dict_del(items, item_id)
    /\ UNCHANGED <<slug_index, next_id>>

\* Variant of delete_store: the freed id is handed out again.
delete_store_reuses_id(item_id, item) ==
    /\ items' = dict_del(items, item_id)
    /\ slug_index' = dict_del(slug_index, item.slug)
    /\ next_id' = item_id

\* lines 126-127 of delete_item
delete_store(item_id, item) ==
    /\ items' = dict_del(items, item_id)
    /\ slug_index' = dict_del(slug_index, item.slug)
    /\ UNCHANGED next_id

\* lines 123-124: return False
delete_not_found(item_id) ==
    /\ last' = [op |-> "delete_item", outcome |-> "False",
                id |-> item_id, data |-> NoData]
    /\ UNCHANGED <<items, slug_index, next_id, clock, created>>

delete_item(item_id) ==
    LET item == dict_get(items, item_id, NoItem)
    IN  IF item = NoItem
        THEN delete_not_found(item_id)
        ELSE /\ delete_store(item_id, item)
             /\ last' = [op |-> "delete_item", outcome |-> "True",
                         id |-> item_id, data |-> [slug |-> item.slug]]
             /\ UNCHANGED <<clock, created>>

----------------------------------------------------------------------------
(* Inputs of the calls *)

\* "a", " ", "\x01 a"
RawNames == {<<97>>, <<32>>, <<1, 32, 97>>}

\* "a", "b", "-a"
RawSlugs == {<<97>>, <<98>>, <<45, 97>>}

\* None, " d"
RawDescriptions == {None, <<32, 100>>}

Ids == 1..(MaxId + 1)

CreateInputs ==
    {ItemCreate(n, s, d) : n \in RawNames, s \in RawSlugs, d \in RawDescriptions}
        \ {Invalid}

UpdateInputs ==
    {ItemUpdate(g, n, d) : g \in SUBSET {"name", "description"},
                           n \in RawNames \cup {None},
                           d \in RawDescriptions} \ {Invalid}

Create ==
    /\ \E data \in CreateInputs : create_item(data)
    /\ UNCHANGED threads

Update ==
    /\ \E item_id \in Ids, data \in UpdateInputs : update_item(item_id, data)
    /\ UNCHANGED threads

Delete ==
    /\ \E item_id \in Ids : delete_item(item_id)
    /\ UNCHANGED threads

Next == Create \/ Update \/ Delete

Spec == Init /\ [][Next]_vars

----------------------------------------------------------------------------
(* The pure functions, applied to every string over Alphabet up to MaxLen *)

\* "a", "0", "-", "A", " ", "\n", "\r", "\x01", "\u3000"
Alphabet == {97, 48, 45, 65, 32, 10, 13, 1, 12288}

Strings == UNION {[1..n -> Alphabet] : n \in 0..MaxLen}

InitPure ==
    /\ items = EmptyDict
    /\ slug_index = EmptyDict
    /\ next_id = 1
    /\ clock = 0
    /\ created = 0
    /\ threads = EmptyDict
    /\ \E s \in Strings, n \in 0..MaxLen :
         last = [op |-> "pending", outcome |-> "", id |-> 0,
                 data |-> [value |-> s, max_length |-> n]]

ValidateSlug ==
    /\ last.op = "pending"
    /\ LET r == validate_slug(last.data.value)
       IN  last' = [op |-> "validate_slug",
                    outcome |-> IF r.raised THEN "ValueError" ELSE "ok",
                    id |-> 0,
                    data |-> [value |-> last.data.value,
                              result |-> IF r.raised THEN None ELSE r.value]]
    /\ UNCHANGED <<items, slug_index, next_id, clock, created, threads>>

\* sanitize_string(value, max_length), and the same call on its result
SanitizeString ==
    /\ last.op = "pending"
    /\ LET r == sanitize_string(last.data.value, last.data.max_length)
       IN  last' = [op |-> "sanitize_string",
                    outcome |-> "ok",
                    id |-> 0,
                    data |-> [value |-> last.data.value,
                              max_length |-> last.data.max_length,
                              result |-> r,
                              again |-> sanitize_string(r, last.data.max_length)]]
    /\ UNCHANGED <<items, slug_index, next_id, clock, created, threads>>

NextPure == ValidateSlug \/ SanitizeString

SpecPure == InitPure /\ [][NextPure]_vars

----------------------------------------------------------------------------
(* The constructors of the input models, applied to raw field values *)

Repeat(c, n) == [i \in 1..n |-> c]

\* "", "a", " ", "\x01 a", "a" * 200, "a" * 201
ModelNames ==
    {<<>>, <<97>>, <<32>>, <<1, 32, 97>>,
     Repeat(97, NAME_MAX_LENGTH), Repeat(97, NAME_MAX_LENGTH + 1)}

\* "a", "-a"
ModelSlugs == {<<97>>, <<45, 97>>}

\* None, " d", "d" * 1001
ModelDescriptions == {None, <<32, 100>>, Repeat(100, DESCRIPTION_MAX_LENGTH + 1)}

InitModels ==
    /\ items = EmptyDict
    /\ slug_index = EmptyDict
    /\ next_id = 1
    /\ clock = 0
    /\ created = 0
    /\ threads = EmptyDict
    /\ \E g \in SUBSET {"name", "description"}, n \in ModelNames,
          sl \in ModelSlugs, d \in ModelDescriptions :
         last = [op |-> "pending", outcome |-> "", id |-> 0,
                 data |-> [given |-> g, name |-> n, slug |-> sl,
                           description |-> d]]

\* ItemCreate(name=..., slug=..., description=...)
ConstructItemCreate ==
    /\ last.op = "pending"
    /\ LET in == last.data
           r == ItemCreate(in.name, in.slug, in.description)
       IN  last' = [op |-> "ItemCreate",
                    outcome |-> IF r = Invalid THEN "ValidationError" ELSE "ok",
                    id |-> 0,
                    data |-> [input |-> in, result |-> r]]
    /\ UNCHANGED <<items, slug_index, next_id, clock, created, threads>>

\* ItemUpdate(...) with the fields of "given" supplied
ConstructItemUpdate ==
    /\ last.op = "pending"
    /\ LET in == last.data
           r == ItemUpdate(in.given, in.name, in.description)
       IN  last' = [op |-> "ItemUpdate",
                    outcome |-> IF r = Invalid THEN "ValidationError" ELSE "ok",
                    id |-> 0,
                    data |-> [input |-> in, result |-> r]]
    /\ UNCHANGED <<items, slug_index, next_id, clock, created, threads>>

NextModels == ConstructItemCreate \/ ConstructItemUpdate

SpecModels == InitModels /\ [][NextModels]_vars

----------------------------------------------------------------------------
(* Two requests inside create_item at once.  The handlers are plain functions,
   which the server runs on worker threads; item_service is one shared object
   and create_item takes no lock, so the statements of two calls interleave. *)

Threads == {1, 2}

InitThreads ==
    /\ items = EmptyDict
    /\ slug_index = EmptyDict
    /\ next_id = 1
    /\ clock = 0
    /\ created = 0
    /\ last = [op |-> "init", outcome |-> "ok", id |-> 0, data |-> NoData]
    /\ \E inputs \in [Threads -> CreateInputs] :
         threads = [t \in Threads |->
                      [pc |-> "line30", data |-> inputs[t], now |-> 0,
                       item |-> NoItem, loaded |-> 0]]

goto(t, pc) == threads' = [threads EXCEPT ![t].pc = pc]

\* lines 30-31: if data.slug in self._slug_index: raise ValueError
CheckSlug ==
    \E t \in Threads :
        /\ threads[t].pc = "line30"
        /\ IF slug_exists(threads[t].data.slug)
           THEN goto(t, "raised")
           ELSE goto(t, "line33")
        /\ UNCHANGED <<items, slug_index, next_id, clock, created, last>>

\* line 33: now = datetime.utcnow()
ReadClock ==
    \E t \in Threads, now \in {clock, clock + 1} :
        /\ threads[t].pc = "line33"
        /\ utcnow(now)
        /\ threads' = [threads EXCEPT ![t].pc = "line34", ![t].now = now]
        /\ UNCHANGED <<items, slug_index, next_id, created, last>>

\* lines 34-41: item = Item(id=self._next_id, ..., created_at=now,
\* updated_at=now); self._next_id is read here, after the clock
BuildItem ==
    \E t \in Threads :
        /\ threads[t].pc = "line34"
        /\ LET data == threads[t].data
               now == threads[t].now
               item == Item(next_id, data.name, data.slug, data.description,
                            now, now)
           IN  IF item = Invalid
               THEN goto(t, "raised")
               ELSE threads' = [threads EXCEPT ![t].pc = "line43",
                                               ![t].item = item]
        /\ UNCHANGED <<items, slug_index, next_id, clock, created, last>>

\* line 43: self._items[item.id] = item
PutItem ==
    \E t \in Threads :
        /\ threads[t].pc = "line43"
        /\ items' = dict_set(items, threads[t].item.id, threads[t].item)
        /\ goto(t, "line44")
        /\ UNCHANGED <<slug_index, next_id, clock, created, last>>

\* line 44: self._slug_index[item.slug] = item.id
PutSlug ==
    \E t \in Threads :
        /\ threads[t].pc = "line44"
        /\ slug_index' = dict_set(slug_index, threads[t].item.slug,
                                  threads[t].item.id)
        /\ goto(t, "line45")
        /\ UNCHANGED <<items, next_id, clock, created, last>>

\* line 45, self._next_id += 1: the attribute is loaded ...
LoadNextId ==
    \E t \in Threads :
        /\ threads[t].pc = "line45"
        /\ threads' = [threads EXCEPT ![t].pc = "line45store",
                                      ![t].loaded = next_id]
        /\ UNCHANGED <<items, slug_index, next_id, clock, created, last>>

\* ... and the sum is stored; line 47: return item
StoreNextId ==
    \E t \in Threads :
        /\ threads[t].pc = "line45store"
        /\ next_id' = threads[t].loaded + 1
        /\ created' = created + 1
        /\ goto(t, "returned")
        /\ UNCHANGED <<items, slug_index, clock, last>>

NextThreads ==
    CheckSlug \/ ReadClock \/ BuildItem \/ PutItem \/ PutSlug \/ LoadNextId \/ StoreNextId

SpecThreads == InitThreads /\ [][NextThreads]_vars

----------------------------------------------------------------------------
(* The create endpoint *)

HTTP_201_CREATED == 201
HTTP_409_CONFLICT == 409

\* isinstance(e, ValueError): the error of line 31 is a ValueError, and so is
\* the ValidationError the Item constructor raises at line 34
is_ValueError(outcome) == outcome \in {"ValueError", "ValidationError"}

\* the status the handler create_item answers with, given how the call
\* item_service.create_item(data) ended; 0 when the error is not caught
api_create_item(outcome) ==
    IF outcome = "ok" THEN HTTP_201_CREATED
    ELSE IF is_ValueError(outcome) THEN HTTP_409_CONFLICT
    ELSE 0

----------------------------------------------------------------------------
(* Claims *)

PageArgs == (0 - (MaxId + 1))..(MaxId + 1)

Live == DOMAIN items

\* C1: the two indexes are mutually consistent in every reachable state: an id
\* is a key of _items iff the slug of its item is a key of _slug_index that
\* maps back to the id; hence no two live items share a slug.
IndexesConsistent ==
    /\ \A k \in Live :
         /\ items[k].slug \in DOMAIN slug_index
         /\ slug_index[items[k].slug] = k
    /\ \A sl \in DOMAIN slug_index :
         /\ slug_index[sl] \in Live
         /\ items[slug_index[sl]].slug = sl
    /\ \A j, k \in Live : items[j].slug = items[k].slug => j = k

\* one of two items was deleted, the other is still indexed
IndexesConsistentWitness ==
    /\ last.op = "delete_item" /\ last.outcome = "True"
    /\ Cardinality(Live) = 1
    /\ Cardinality(DOMAIN slug_index) = 1

\* C2: a create_item call that raises (duplicate slug, or the Item is rejected
\* by validation) leaves _items, _slug_index and _next_id as they were.
FailedCreateStep ==
    (last'.op = "create_item" /\ last'.outcome # "ok")
        => UNCHANGED <<items, slug_index, next_id>>

FailedCreateChangesNothing == [][FailedCreateStep]_vars

\* a create_item call raised for a duplicate slug on a store that holds items
FailedCreateWitness ==
    /\ last.op = "create_item"
    /\ last.outcome = "ValueError"
    /\ last.data.slug \in DOMAIN slug_index
    /\ Live # {}

\* C3: the k-th create_item call that returns gets id k, whatever was deleted
\* or failed before it.
KthCreateGetsIdK ==
    (last.op = "create_item" /\ last.outcome = "ok") => last.id = created

\* the second successful create, made after the first item was deleted
KthCreateWitness ==
    /\ last.op = "create_item" /\ last.outcome = "ok"
    /\ created = 2
    /\ Live = {2}

\* C4: after a create_item that returns, get_item(id) has the name, slug and
\* description of the ItemCreate object given to the call.
CreatedItemEqualsInput ==
    (last.op = "create_item" /\ last.outcome = "ok") =>
        LET item == get_item(last.id)
        IN  /\ item # NoItem
            /\ item.name = last.data.name
            /\ item.slug = last.data.slug
            /\ item.description = last.data.description

\* C5: after a delete_item that returns True, get_item of the id and
\* get_item_by_slug of the item's slug return None; a create_item with that
\* slug that follows is not refused for the slug: unless the Item is rejected
\* by validation it returns an item, found under the slug, with another id.
DeletedIsGone ==
    (last.op = "delete_item" /\ last.outcome = "True") =>
        /\ get_item(last.id) = NoItem
        /\ get_item_by_slug(last.data.slug) = NoItem

RecreateStep ==
    ( /\ last.op = "delete_item" /\ last.outcome = "True"
      /\ last'.op = "create_item"
      /\ last'.data.slug = last.data.slug
      /\ last'.outcome # "ValidationError" )
    => /\ last'.outcome = "ok"
       /\ last'.id # last.id
       /\ last.data.slug \in DOMAIN slug_index'
       /\ slug_index'[last.data.slug] = last'.id
       /\ last'.id \in DOMAIN items'

DeleteFreesSlug == []DeletedIsGone /\ [][RecreateStep]_vars

\* an item was deleted and a create_item with its slug can follow
DeleteFreesSlugWitness ==
    /\ last.op = "delete_item" /\ last.outcome = "True"
    /\ next_id <= MaxId
    /\ \E data \in CreateInputs : data.slug = last.data.slug

\* C6: for skip >= 0 and limit > 0, list_items(skip, limit) is the live items
\* at positions skip .. skip+limit-1 of the ascending order of ids.
Rank(k) == Cardinality({j \in Live : j < k})

ListIsPage ==
    \A skip \in PageArgs, limit \in PageArgs :
        (skip >= 0 /\ limit > 0) =>
            LET r == list_items(skip, limit)
                n == Cardinality(Live)
                k == IF n - skip <= 0 THEN 0
                     ELSE IF limit < n - skip THEN limit ELSE n - skip
            IN  /\ Len(r) = k
                /\ \A i \in 1..k :
                     /\ r[i].id \in Live
                     /\ r[i] = items[r[i].id]
                     /\ Rank(r[i].id) = skip + i - 1

\* two live items: skip drops the first, limit cuts the second
ListIsPageWitness ==
    /\ Cardinality(Live) = 2
    /\ Len(list_items(1, 1)) = 1
    /\ Len(list_items(0, 1)) = 1
    /\ list_items(1, 1) # list_items(0, 1)

\* C7: list_items with skip < 0 or limit <= 0 returns an empty list.
ListBadArgsEmpty ==
    \A skip \in PageArgs, limit \in PageArgs :
        (skip < 0 \/ limit <= 0) => list_items(skip, limit) = <<>>

\* C8: an update_item that returns the item changes only the supplied fields
\* and updated_at of that item; its id, slug and created_at, the omitted
\* fields, every other item, _slug_index and _next_id stay as they were.
UpdateStep ==
    (last'.op = "update_item" /\ last'.outcome = "ok") =>
        LET k == last'.id
            data == last'.data
        IN  /\ DOMAIN items' = DOMAIN items
            /\ k \in DOMAIN items
            /\ items'[k].id = items[k].id
            /\ items'[k].slug = items[k].slug
            /\ items'[k].created_at = items[k].created_at
            /\ \A f \in {"name", "description"} :
                 items'[k][f] = IF f \in data.fields_set THEN data[f]
                                ELSE items[k][f]
            /\ \A j \in DOMAIN items \ {k} : items'[j] = items[j]
            /\ slug_index' = slug_index
            /\ next_id' = next_id

UpdateChangesOnlySupplied == [][UpdateStep]_vars

\* an update that supplied only the name, on an item with a description,
\* while another item is live
UpdateWitness ==
    /\ last.op = "update_item" /\ last.outcome = "ok"
    /\ last.data.fields_set = {"name"}
    /\ items[last.id].description # None
    /\ items[last.id].name = last.data.name
    /\ Cardinality(Live) = 2

\* C9: every live item's name is a non-empty string of at most 200 characters.
NamesValid ==
    \A k \in Live :
        /\ items[k].name # None
        /\ Len(items[k].name) >= 1
        /\ Len(items[k].name) <= NAME_MAX_LENGTH

\* C10: validate_slug returns, and returns its input, iff the string is
\* non-empty, all of [a-z0-9-], without a hyphen at either end and without "--".
WellFormedSlug(s) ==
    /\ s # <<>>
    /\ \A i \in 1..Len(s) : s[i] \in SlugChars
    /\ s[1] # 45
    /\ s[Len(s)] # 45
    /\ \A i \in 1..(Len(s) - 1) : ~(s[i] = 45 /\ s[i + 1] = 45)

ValidateSlugExact ==
    last.op = "validate_slug" =>
        /\ (last.outcome = "ok") <=> WellFormedSlug(last.data.value)
        /\ (last.outcome = "ok") => last.data.result = last.data.value

\* C11: constructing ItemCreate or ItemUpdate never rejects a name or a
\* description for its length: with a non-empty name and a valid slug the
\* constructor returns, the name cut to 200 and the description to 1000.
AcceptedItemCreate ==
    last.op = "ItemCreate" =>
        LET in == last.data.input
        IN  (Len(in.name) >= 1 /\ ~validate_slug(in.slug).raised) =>
                /\ last.outcome = "ok"
                /\ Len(last.data.result.name) <= NAME_MAX_LENGTH
                /\ \/ last.data.result.description = None
                   \/ Len(last.data.result.description) <= DESCRIPTION_MAX_LENGTH

AcceptedItemUpdate ==
    last.op = "ItemUpdate" =>
        LET in == last.data.input
        IN  ("name" \in in.given => Len(in.name) >= 1) =>
                /\ last.outcome = "ok"
                /\ \/ last.data.result.name = None
                   \/ Len(last.data.result.name) <= NAME_MAX_LENGTH
                /\ \/ last.data.result.description = None
                   \/ Len(last.data.result.description) <= DESCRIPTION_MAX_LENGTH

OverlongIsTruncated == AcceptedItemCreate /\ AcceptedItemUpdate

\* C12: the create endpoint answers 409 only when the slug is already indexed.
ConflictOnlyForDuplicate ==
    (last.op = "create_item" /\ api_create_item(last.outcome) = HTTP_409_CONFLICT)
        => last.data.slug \in DOMAIN slug_index

\* C13: update_item and delete_item on an id that is not in the store return
\* None and False and change nothing; get_item and get_item_by_slug on an
\* unknown id or slug return None.
UnknownLookups ==
    /\ \A k \in Ids \ Live : get_item(k) = NoItem
    /\ \A sl \in RawSlugs \ DOMAIN slug_index : get_item_by_slug(sl) = NoItem

NotFoundStep ==
    /\ (last'.op = "update_item" /\ last'.id \notin DOMAIN items) =>
          /\ last'.outcome = "None"
          /\ UNCHANGED <<items, slug_index, next_id>>
    /\ (last'.op = "delete_item" /\ last'.id \notin DOMAIN items) =>
          /\ last'.outcome = "False"
          /\ UNCHANGED <<items, slug_index, next_id>>

NotFoundIsAValue == []UnknownLookups /\ [][NotFoundStep]_vars

\* an update of an unknown id while an item, updated before, is live
NotFoundWitness ==
    /\ last.op = "update_item" /\ last.outcome = "None"
    /\ last.id \notin Live
    /\ \E k \in Live : items[k].updated_at > items[k].created_at

\* C14: the result of sanitize_string has no whitespace at either end, no
\* control character, and at most max_length characters.
SanitizedIsClean ==
    last.op = "sanitize_string" =>
        LET r == last.data.result
        IN  /\ Len(r) <= last.data.max_length
            /\ \A i \in 1..Len(r) : r[i] \notin ControlChars
            /\ r # <<>> => (r[1] \notin Whitespace /\ r[Len(r)] \notin Whitespace)
            /\ last.data.value = <<>> => r = <<>>

\* C15: an update_item that returns the item sets updated_at to the time read
\* in the call, also with no field supplied; when the clock advanced, it is
\* greater than the item's updated_at before the call.
RefreshStep ==
    (last'.op = "update_item" /\ last'.outcome = "ok") =>
        LET k == last'.id
        IN  /\ items'[k].updated_at = clock'
            /\ clock' > clock => items'[k].updated_at > items[k].updated_at

UpdateRefreshesUpdatedAt == [][RefreshStep]_vars

\* an update without fields moved updated_at past created_at
RefreshWitness ==
    /\ last.op = "update_item" /\ last.outcome = "ok"
    /\ last.data.fields_set = {}
    /\ items[last.id].updated_at > items[last.id].created_at

\* C17: per field of an update: omitted, the stored value stays; supplied with
\* a value, it is overwritten; description supplied as None is cleared; name is
\* never cleared to None.
ThreeWayStep ==
    (last'.op = "update_item" /\ last'.outcome = "ok") =>
        LET k == last'.id
            data == last'.data
        IN  /\ \A f \in {"name", "description"} :
                 /\ f \notin data.fields_set => items'[k][f] = items[k][f]
                 /\ (f \in data.fields_set /\ data[f] # None)
                        => items'[k][f] = data[f]
            /\ ("description" \in data.fields_set /\ data.description = None)
                   => items'[k].description = None
            /\ items[k].name # None => items'[k].name # None

UpdateIsThreeWay == [][ThreeWayStep]_vars

\* C18: updated_at >= created_at for every live item; the two are equal right
\* after create_item; created_at of an item never changes.
TimestampsOrdered ==
    /\ \A k \in Live : items[k].updated_at >= items[k].created_at
    /\ (last.op = "create_item" /\ last.outcome = "ok") =>
           items[last.id].created_at = items[last.id].updated_at

CreatedAtStep ==
    \A k \in DOMAIN items \cap DOMAIN items' :
        items'[k].created_at = items[k].created_at

TimestampsKept == []TimestampsOrdered /\ [][CreatedAtStep]_vars

\* an item was created after another one had been updated at a later time
TimestampsWitness ==
    /\ last.op = "create_item" /\ last.outcome = "ok"
    /\ \E k \in Live : items[k].updated_at > items[k].created_at

\* C19: _next_id is 1 plus the number of create_item calls that returned, is
\* greater than every live id and never decreases; the item under key k has
\* id k.
CounterState ==
    /\ next_id = 1 + created
    /\ \A k \in Live : k < next_id /\ items[k].id = k

CounterTracksCreates == []CounterState /\ [][next_id' >= next_id]_vars

\* two items were created and both deleted
CounterWitness ==
    /\ next_id = 3
    /\ Live = {}
    /\ last.op = "delete_item" /\ last.outcome = "True"

\* C20: sanitize_string(sanitize_string(s, n), n) = sanitize_string(s, n).
SanitizeIdempotent ==
    last.op = "sanitize_string" => last.data.again = last.data.result

\* C16: two concurrent create_item calls behave as if each ran in one step:
\* when both have ended, the items they returned have different ids and
\* different slugs, each is stored under its id, the indexes are consistent
\* and _next_id counts them.
Returned == {t \in DOMAIN threads : threads[t].pc = "returned"}

AllEnded == \A t \in DOMAIN threads : threads[t].pc \in {"returned", "raised"}

ConcurrentCreatesAtomic ==
    (DOMAIN threads # {} /\ AllEnded) =>
        /\ \A t, u \in Returned :
             t # u => /\ threads[t].item.id # threads[u].item.id
                      /\ threads[t].item.slug # threads[u].item.slug
        /\ \A t \in Returned : get_item(threads[t].item.id) = threads[t].item
        /\ IndexesConsistent
        /\ next_id = 1 + Cardinality(Returned)

====
